---- MODULE Spec2Model ----
(***************************************************************************)
(* fii_analyzer.py: fetch the Fundamentus FII table, normalise its numeric *)
(* cells, filter, score, rank and write the spreadsheet.                   *)
(*                                                                         *)
(* A cell is a tagged value: a text cell (a sequence of characters, as     *)
(* get_text returns it), a number (an exact decimal: the digits before and *)
(* after the point, so that no value overflows and every comparison is     *)
(* exact; on the cells used here float arithmetic compares the same way)   *)
(* or None.                                                                *)
(***************************************************************************)
EXTENDS Integers, Sequences, FiniteSets, TLC

VARIABLES
    pc,              \* the statement of main that runs next
    site,            \* what the request to the site returns
    df,              \* main's df: the fetched, then the normalised table
    filtered_df,     \* main's filtered_df
    final_df,        \* main's final_df
    top_by_segment,  \* main's top_by_segment
    n,               \* the n handed to get_top_by_segment
    out,             \* the messages printed so far
    file,            \* the output spreadsheet on disk
    exit_status,     \* the exit status of the process, once it has ended
    ran              \* the stages executed so far, each with its outcome

vars == <<pc, site, df, filtered_df, final_df, top_by_segment, n,
          out, file, exit_status, ran>>

-----------------------------------------------------------------------------
(* Bounds of the model. *)

\* rows of a fetched table
MaxRows == 2
\* records of a filtered record set handed to the report stages
MaxRecs == 3
\* largest n handed to get_top_by_segment besides main's own
MaxN == 2

-----------------------------------------------------------------------------
(* Cells. *)

Str(s) == [t |-> "str", s |-> s]
Num(i, f) == [t |-> "num", i |-> i, f |-> f]
NoneCell == [t |-> "none"]

Digit == {"0", "1", "2", "3", "4", "5", "6", "7", "8", "9"}

DigitVal(c) ==
    CASE c = "0" -> 0 [] c = "1" -> 1 [] c = "2" -> 2 [] c = "3" -> 3
      [] c = "4" -> 4 [] c = "5" -> 5 [] c = "6" -> 6 [] c = "7" -> 7
      [] c = "8" -> 8 [] c = "9" -> 9

\* str.replace(old, new) for a one-character old and a new of length 0 or 1
StrReplace(s, old, new) ==
    LET F[k \in 0..Len(s)] ==
            IF k = 0 THEN <<>>
            ELSE F[k - 1] \o (IF s[k] = old THEN new ELSE <<s[k]>>)
    IN  F[Len(s)]

Zeros(k) == [j \in 1..k |-> 0]

StripLead(d) ==
    LET nz == {k \in 1..Len(d) : d[k] # 0}
    IN  IF nz = {} THEN <<>>
        ELSE LET a == CHOOSE k \in nz : \A m \in nz : k <= m
             IN  SubSeq(d, a, Len(d))

StripTrail(d) ==
    LET nz == {k \in 1..Len(d) : d[k] # 0}
    IN  IF nz = {} THEN <<>>
        ELSE LET b == CHOOSE k \in nz : \A m \in nz : k >= m
             IN  SubSeq(d, 1, b)

\* the number with integer digits i and fraction digits f, in canonical form
Canon(i, f) == Num(StripLead(i), StripTrail(f))

\* float(s) accepts, over the characters of a locale-formatted cell, digits
\* with at most one point and at least one digit; anything else raises
IsFloat(s) ==
    /\ \A k \in 1..Len(s) : s[k] \in Digit \cup {"."}
    /\ Cardinality({k \in 1..Len(s) : s[k] = "."}) <= 1
    /\ \E k \in 1..Len(s) : s[k] \in Digit

ToFloat(s) ==
    LET dots == {k \in 1..Len(s) : s[k] = "."}
        p    == IF dots = {} THEN Len(s) + 1 ELSE CHOOSE k \in dots : TRUE
        ip   == [k \in 1..(p - 1) |-> DigitVal(s[k])]
        fp   == [k \in 1..(Len(s) - p) |-> DigitVal(s[p + k])]
    IN  Canon(ip, IF p > Len(s) THEN <<>> ELSE fp)

\* x / 100
Div100(x) ==
    LET padded == <<0, 0>> \o x.i
        m      == Len(padded)
    IN  Canon(SubSeq(padded, 1, m - 2), SubSeq(padded, m - 1, m) \o x.f)

\* -1, 0, 1 as digit sequence a is below, equal to, above b (same length)
LexCmp(a, b) ==
    LET diff == {k \in 1..Len(a) : a[k] # b[k]}
    IN  IF diff = {} THEN 0
        ELSE LET k == CHOOSE j \in diff : \A m \in diff : j <= m
             IN  IF a[k] < b[k] THEN -1 ELSE 1

Cmp(x, y) ==
    IF Len(x.i) # Len(y.i) THEN (IF Len(x.i) < Len(y.i) THEN -1 ELSE 1)
    ELSE LET c == LexCmp(x.i, y.i)
             w == IF Len(x.f) > Len(y.f) THEN Len(x.f) ELSE Len(y.f)
         IN  IF c # 0 THEN c
             ELSE LexCmp(x.f \o Zeros(w - Len(x.f)), y.f \o Zeros(w - Len(y.f)))

Gt(x, y) == Cmp(x, y) = 1
Lt(x, y) == Cmp(x, y) = -1
Ge(x, y) == Cmp(x, y) >= 0
Le(x, y) == Cmp(x, y) <= 0

-----------------------------------------------------------------------------
(* Data frames: a sequence of rows, or None. *)

DF(rows) == [none |-> FALSE, rows |-> rows]
None == [none |-> TRUE, rows |-> <<>>]

Err == [t |-> "err"]

\* df['Dividend Yield'].str.replace('%', '').str.replace('.', '')
\*     .str.replace(',', '.').astype(float) / 100
ConvDividendYield(c) ==
    IF c.t # "str" THEN Err
    ELSE LET s == StrReplace(StrReplace(StrReplace(c.s, "%", <<>>), ".", <<>>),
                             ",", <<".">>)
         IN  IF IsFloat(s) THEN Div100(ToFloat(s)) ELSE Err

\* df['P/VP'].str.replace(',', '.').astype(float)
ConvPVP(c) ==
    IF c.t # "str" THEN Err
    ELSE LET s == StrReplace(c.s, ",", <<".">>)
         IN  IF IsFloat(s) THEN ToFloat(s) ELSE Err

\* lambda x: float(x.replace('.', '')) if isinstance(x, str) else x
ConvThousands(c) ==
    IF c.t # "str" THEN c
    ELSE LET s == StrReplace(c.s, ".", <<>>)
         IN  IF IsFloat(s) THEN ToFloat(s) ELSE Err

\* df['Vacancia Media'].str.replace('%', '').str.replace(',', '.')
\*     .astype(float) / 100
ConvVacanciaMedia(c) ==
    IF c.t # "str" THEN Err
    ELSE LET s == StrReplace(StrReplace(c.s, "%", <<>>), ",", <<".">>)
         IN  IF IsFloat(s) THEN Div100(ToFloat(s)) ELSE Err

ConvRow(r) ==
    [r EXCEPT !.DividendYield = ConvDividendYield(@),
              !.PVP           = ConvPVP(@),
              !.ValorMercado  = ConvThousands(@),
              !.Liquidez      = ConvThousands(@),
              !.VacanciaMedia = ConvVacanciaMedia(@)]

NumericCols == {"DividendYield", "PVP", "ValorMercado", "Liquidez", "VacanciaMedia"}

\* clean_and_convert_data: the converted table, or None when a cell raises
clean_and_convert_data(d) ==
    LET conv == [k \in 1..Len(d.rows) |-> ConvRow(d.rows[k])]
    IN  IF d.none \/ \E k \in 1..Len(conv) : \E c \in NumericCols : conv[k][c].t = "err"
        THEN None
        ELSE DF(conv)

-----------------------------------------------------------------------------
(* The filter. *)

\* a lower yield bound of 0.07 in place of 0.7
DYMinPercent == Num(<<>>, <<0, 7>>)

\* the thresholds of apply_filters
DYMin  == Num(<<>>, <<7>>)
DYMax  == Num(<<>>, <<2, 5>>)
PVPMin == Num(<<>>, <<5>>)
PVPMax == Num(<<1>>, <<1>>)
LiqMin == Num(<<1>> \o Zeros(6), <<>>)
VMMin  == Num(<<1>> \o Zeros(9), <<>>)

FilterCols == {"DividendYield", "PVP", "ValorMercado", "Liquidez"}

\* the filter without its lower yield bound
PassesFilterNoLowerYield(r) ==
    /\ Lt(r.DividendYield, DYMax)
    /\ Gt(r.PVP, PVPMin)
    /\ Lt(r.PVP, PVPMax)
    /\ Gt(r.Liquidez, LiqMin)
    /\ Gt(r.ValorMercado, VMMin)

PassesFilter(r) ==
    /\ Gt(r.DividendYield, DYMin)
    /\ Lt(r.DividendYield, DYMax)
    /\ Gt(r.PVP, PVPMin)
    /\ Lt(r.PVP, PVPMax)
    /\ Gt(r.Liquidez, LiqMin)
    /\ Gt(r.ValorMercado, VMMin)

\* apply_filters: the rows passing every bound, in their order; None when a
\* comparison raises (a cell that is no number)
apply_filters(d) ==
    IF d.none \/ \E k \in 1..Len(d.rows) : \E c \in FilterCols : d.rows[k][c].t # "num"
    THEN None
    ELSE DF(SelectSeq(d.rows, PassesFilter))

-----------------------------------------------------------------------------
(* The score. *)

DYPts(x)  == IF Ge(x, Num(<<>>, <<1, 4>>)) THEN 2
             ELSE IF Ge(x, Num(<<>>, <<1, 2>>)) THEN 1 ELSE 0
\* the two price-to-book tiers with their points swapped
PVPPtsSwapped(x) == IF Le(x, Num(<<>>, <<8>>)) THEN 1
                    ELSE IF Le(x, Num(<<>>, <<8, 5>>)) THEN 2 ELSE 0

PVPPts(x) == IF Le(x, Num(<<>>, <<8>>)) THEN 2
             ELSE IF Le(x, Num(<<>>, <<8, 5>>)) THEN 1 ELSE 0
LiqPts(x) == IF Ge(x, Num(<<5>> \o Zeros(6), <<>>)) THEN 2
             ELSE IF Ge(x, Num(<<2>> \o Zeros(6), <<>>)) THEN 1 ELSE 0
VMPts(x)  == IF Ge(x, Num(<<2>> \o Zeros(9), <<>>)) THEN 2
             ELSE IF Ge(x, Num(<<1, 5>> \o Zeros(8), <<>>)) THEN 1 ELSE 0
VacPts(x) == IF Le(x, Num(<<>>, <<0, 5>>)) THEN 2
             ELSE IF Le(x, Num(<<>>, <<1>>)) THEN 1 ELSE 0

Min(a, b) == IF a < b THEN a ELSE b

\* a comparison of calculate_score raises on a cell that is no number
ScoreRaises(r) == \E c \in NumericCols : r[c].t # "num"

\* calculate_score: min(score, 10), and 0 when a comparison raises
calculate_score(r) ==
    IF ScoreRaises(r) THEN 0
    ELSE Min(DYPts(r.DividendYield) + PVPPts(r.PVP) + LiqPts(r.Liquidez)
               + VMPts(r.ValorMercado) + VacPts(r.VacanciaMedia), 10)

-----------------------------------------------------------------------------
(* Ranking. sort_values on several columns is a stable sort. *)

\* the yield taken ascending among equal scores
NotaDYBeforeYieldAsc(a, b) ==
    \/ a.Nota > b.Nota
    \/ a.Nota = b.Nota /\ Lt(a.DividendYield, b.DividendYield)

\* row a goes strictly before row b under (Nota desc, Dividend Yield desc)
NotaDYBefore(a, b) ==
    \/ a.Nota > b.Nota
    \/ a.Nota = b.Nota /\ Gt(a.DividendYield, b.DividendYield)

\* the score taken ascending inside a category
SegNotaDYBeforeScoreAsc(a, b) ==
    \/ a.Segmento < b.Segmento
    \/ a.Segmento = b.Segmento /\ NotaDYBefore(b, a)

\* under (Segmento asc, Nota desc, Dividend Yield desc)
SegNotaDYBefore(a, b) ==
    \/ a.Segmento < b.Segmento
    \/ a.Segmento = b.Segmento /\ NotaDYBefore(a, b)

\* under (Segmento asc, Nota desc)
SegNotaBefore(a, b) ==
    \/ a.Segmento < b.Segmento
    \/ a.Segmento = b.Segmento /\ a.Nota > b.Nota

Before(key, a, b) ==
    CASE key = "NotaDY"    -> NotaDYBefore(a, b)
      [] key = "SegNotaDY" -> SegNotaDYBefore(a, b)
      [] key = "SegNota"   -> SegNotaBefore(a, b)

\* r put into the sorted s after every row that it does not go before
InsertStable(s, r, key) ==
    LET later == {k \in 1..Len(s) : Before(key, r, s[k])}
        p     == IF later = {} THEN Len(s) + 1
                 ELSE CHOOSE k \in later : \A m \in later : k <= m
    IN  SubSeq(s, 1, p - 1) \o <<r>> \o SubSeq(s, p, Len(s))

sort_values(rows, key) ==
    LET F[k \in 0..Len(rows)] ==
            IF k = 0 THEN <<>> ELSE InsertStable(F[k - 1], rows[k], key)
    IN  F[Len(rows)]

\* head taking one row too many
GroupHeadOneMore(rows, m) ==
    LET keep(k) == Cardinality({j \in 1..(k - 1) :
                                  rows[j].Segmento = rows[k].Segmento}) <= m
        idx == {k \in 1..Len(rows) : keep(k)}
        F[k \in 0..Len(rows)] ==
            IF k = 0 THEN <<>>
            ELSE IF k \in idx THEN Append(F[k - 1], rows[k]) ELSE F[k - 1]
    IN  F[Len(rows)]

\* groupby('Segmento').head(m): the first m rows of each category, in order
GroupHead(rows, m) ==
    LET keep(k) == Cardinality({j \in 1..(k - 1) :
                                  rows[j].Segmento = rows[k].Segmento}) < m
        idx == {k \in 1..Len(rows) : keep(k)}
        F[k \in 0..Len(rows)] ==
            IF k = 0 THEN <<>>
            ELSE IF k \in idx THEN Append(F[k - 1], rows[k]) ELSE F[k - 1]
    IN  F[Len(rows)]

get_top_by_segment(rows, m) ==
    IF rows = <<>> THEN <<>>
    ELSE sort_values(GroupHead(sort_values(rows, "SegNotaDY"), m), "SegNota")

-----------------------------------------------------------------------------
(* Inputs. *)

\* the categories (Segmento); 1 sorts before 2
Segmentos == {1, 2}

Row(papel, seg, dy, pvp, vm, liq, vac) ==
    [Papel |-> papel, Segmento |-> seg, DividendYield |-> dy, PVP |-> pvp,
     ValorMercado |-> vm, Liquidez |-> liq, VacanciaMedia |-> vac]

\* text cells of the site's table
TxtDividendYield ==
    { <<"1", "2", ",", "3", "4", "%">>,
      <<"8", "0", ",", "0", "0", "%">>,
      <<"1", ".", "2", "3", "4", ",", "5", "0", "%">>,
      <<>> }

TxtVacanciaMedia ==
    { <<"5", ",", "0", "0", "%">>,
      <<"1", ".", "2", "3", "4", ",", "5", "0", "%">> }

TxtPVPok == <<"0", ",", "9", "0">>
TxtVMok  == <<"2", ".", "0", "0", "0", ".", "0", "0", "0", ".", "0", "0", "0">>
TxtLiqok == <<"3", ".", "0", "0", "0", ".", "0", "0", "0">>

\* P/VP, Valor de Mercado and Liquidez of a row: inside every bound of the
\* filter, or outside one of them
TxtOthers ==
    { <<TxtPVPok, TxtVMok, TxtLiqok>>,
      <<<<"1", ",", "2", "0">>, TxtVMok, TxtLiqok>>,
      <<TxtPVPok, <<"5", "0", "0", ".", "0", "0", "0", ".", "0", "0", "0">>, TxtLiqok>>,
      <<TxtPVPok, TxtVMok, <<"5", "0", "0", ".", "0", "0", "0">>>> }

RawCells == TxtDividendYield \X TxtVacanciaMedia \X TxtOthers

\* the k-th row of a table, from its cells
RawRow(k, c) ==
    Row(k, ((k - 1) % 2) + 1, Str(c[1]), Str(c[3][1]), Str(c[3][2]),
        Str(c[3][3]), Str(c[2]))

\* the table with the rows of cells cs
Table(cs) == [k \in 1..Len(cs) |-> RawRow(k, cs[k])]

\* the request fails, the page holds no table, the parse raises, or a table
\* of up to MaxRows rows comes back
IsSite(s) ==
    \/ \E k \in {"neterr", "notable", "unexpected"} : s = [kind |-> k, rows |-> <<>>]
    \/ \E len \in 0..MaxRows : \E cs \in [1..len -> RawCells] :
          s = [kind |-> "table", rows |-> Table(cs)]

\* normalised values on either side of each threshold of calculate_score
LvDividendYield == {Num(<<>>, <<1>>), Num(<<>>, <<1, 2>>), Num(<<>>, <<1, 4>>)}
LvPVP           == {Num(<<>>, <<8>>), Num(<<>>, <<8, 5>>), Num(<<>>, <<9>>)}
LvLiquidez      == {Num(<<1, 5>> \o Zeros(5), <<>>), Num(<<2>> \o Zeros(6), <<>>),
                    Num(<<5>> \o Zeros(6), <<>>)}
LvValorMercado  == {Num(<<1, 2>> \o Zeros(8), <<>>), Num(<<1, 5>> \o Zeros(8), <<>>),
                    Num(<<2>> \o Zeros(9), <<>>)}
LvVacanciaMedia == {Num(<<>>, <<0, 5>>), Num(<<>>, <<1>>), Num(<<>>, <<2>>)}

Grid == LvDividendYield \X LvPVP \X LvValorMercado \X LvLiquidez \X LvVacanciaMedia

\* a few records: scores 8, 8 and 2, the lowest score with the highest yield,
\* and one whose vacancy cell is no number
Profiles ==
    { <<Num(<<>>, <<1>>), Num(<<>>, <<8>>), Num(<<2>> \o Zeros(9), <<>>),
        Num(<<5>> \o Zeros(6), <<>>), Num(<<>>, <<0, 5>>)>>,
      <<Num(<<>>, <<1, 2>>), Num(<<>>, <<8, 5>>), Num(<<2>> \o Zeros(9), <<>>),
        Num(<<5>> \o Zeros(6), <<>>), Num(<<>>, <<0, 5>>)>>,
      <<Num(<<>>, <<1, 4>>), Num(<<>>, <<9>>), Num(<<1, 2>> \o Zeros(8), <<>>),
        Num(<<1, 5>> \o Zeros(5), <<>>), Num(<<>>, <<2>>)>>,
      <<Num(<<>>, <<1, 2>>), Num(<<>>, <<8>>), Num(<<2>> \o Zeros(9), <<>>),
        Num(<<5>> \o Zeros(6), <<>>), NoneCell>> }

Rec(k, seg, m) == Row(k, seg, m[1], m[2], m[3], m[4], m[5])

\* one record of the grid, or up to MaxRecs records of the profiles
IsRecordSet(d) ==
    \/ \E m \in Grid : d = DF(<<Rec(1, 1, m)>>)
    \/ \E len \in 1..MaxRecs : \E c \in [1..len -> Segmentos \X Profiles] :
          d = DF([k \in 1..len |-> Rec(k, c[k][1], c[k][2])])

\* get_top_by_segment(final_df, 5) in main
TopN == 5

-----------------------------------------------------------------------------
(* main. *)

Stage(name, ok) == [stage |-> name, ok |-> ok]

\* the process ends: main returns, and the script with it
ExitNormal == 0

InitCommon ==
    /\ final_df = <<>>
    /\ top_by_segment = <<>>
    /\ out = <<>>
    /\ file = "untouched"
    /\ exit_status = -1
    /\ ran = <<>>

\* a run of the script
InitMain ==
    /\ pc = "fetch"
    /\ IsSite(site)
    /\ df = None
    /\ filtered_df = None
    /\ n = TopN
    /\ InitCommon

\* the report stages of main (lines 263-303) entered with a non-empty record
\* set, and get_top_by_segment with an n of its caller: what this code does with
\* records, though no run of the script hands it any (C10_ReportNeverReached)
InitReport ==
    /\ pc = "score"
    /\ site = [kind |-> "given", rows |-> <<>>]
    /\ IsRecordSet(df)
    /\ filtered_df = df
    /\ n \in (0..MaxN) \cup {TopN}
    /\ InitCommon

\* scrape_fundamentus_fiis: the table, or None when the request, the search
\* for the table or anything else raises
scrape_fundamentus_fiis(s) == IF s.kind = "table" THEN DF(s.rows) ELSE None

\* what scrape_fundamentus_fiis prints
ScrapeOut(s) ==
    CASE s.kind = "neterr"     -> <<"ErroAcessar">>
      [] s.kind = "notable"    -> <<"ErroTabela">>
      [] s.kind = "unexpected" -> <<"ErroInesperado">>
      [] OTHER                 -> <<>>

\* the stages scrape_fundamentus_fiis went through
ScrapeRan(s) ==
    IF s.kind = "neterr" THEN <<Stage("fetch", FALSE)>>
    ELSE <<Stage("fetch", TRUE), Stage("parse", s.kind = "table")>>

\* main going on whatever scrape_fundamentus_fiis returned
FetchIgnored(d) == TRUE

\* line 255: if df is not None
FetchSucceeded(d) == ~d.none

\* lines 252-256, 310-311: df = scrape_fundamentus_fiis(); if df is not None
Fetch ==
    /\ pc = "fetch"
    /\ LET d == scrape_fundamentus_fiis(site)
       IN  /\ df' = d
           /\ ran' = ran \o ScrapeRan(site)
           /\ IF FetchSucceeded(d)
              THEN /\ out' = out \o ScrapeOut(site) \o <<"DadosObtidos">>
                   /\ pc' = "clean"
                   /\ exit_status' = exit_status
              ELSE /\ out' = out \o ScrapeOut(site) \o <<"NaoFoiPossivel">>
                   /\ pc' = "done"
                   /\ exit_status' = ExitNormal
    /\ UNCHANGED <<site, filtered_df, final_df, top_by_segment, n, file>>

\* main going on whatever clean_and_convert_data returned
CleanIgnored(d) == TRUE

\* line 259: if df is not None
CleanSucceeded(d) == ~d.none

\* line 262: if filtered_df is not None
FilterSucceeded(d) == ~d.none

\* lines 257-259, 308-309: df = clean_and_convert_data(df); if df is not None
Clean ==
    /\ pc = "clean"
    /\ LET d == clean_and_convert_data(df)
       IN  /\ df' = d
           /\ ran' = ran \o <<Stage("clean", ~d.none)>>
           /\ IF CleanSucceeded(d)
              THEN /\ out' = out
                   /\ pc' = "filter"
                   /\ exit_status' = exit_status
              ELSE /\ out' = out \o <<"ErroConverter", "ErroProcessar">>
                   /\ pc' = "done"
                   /\ exit_status' = ExitNormal
    /\ UNCHANGED <<site, filtered_df, final_df, top_by_segment, n, file>>

\* lines 260-263, 304-307: filtered_df = apply_filters(df); if filtered_df is
\* not None: if len(filtered_df) > 0
Filter ==
    /\ pc = "filter"
    /\ LET d == apply_filters(df)
       IN  /\ filtered_df' = d
           /\ ran' = ran \o <<Stage("filter", ~d.none)>>
           /\ IF ~FilterSucceeded(d)
              THEN /\ out' = out \o <<"ErroAplicarFiltros", "ErroFiltrar">>
                   /\ pc' = "done"
                   /\ exit_status' = ExitNormal
              ELSE IF Len(d.rows) > 0
              THEN /\ out' = out
                   /\ pc' = "score"
                   /\ exit_status' = exit_status
              ELSE /\ out' = out \o <<"Nenhum">>
                   /\ pc' = "done"
                   /\ exit_status' = ExitNormal
    /\ UNCHANGED <<site, df, final_df, top_by_segment, n, file>>

WithNota(r, s) ==
    [Papel |-> r.Papel, Segmento |-> r.Segmento, DividendYield |-> r.DividendYield,
     PVP |-> r.PVP, ValorMercado |-> r.ValorMercado, Liquidez |-> r.Liquidez,
     VacanciaMedia |-> r.VacanciaMedia, Nota |-> s]

\* "Erro ao calcular score", once for every row whose score raises
ScoreErrors(rows) ==
    LET F[k \in 0..Len(rows)] ==
            IF k = 0 THEN <<>>
            ELSE F[k - 1] \o (IF ScoreRaises(rows[k]) THEN <<"ErroScore">> ELSE <<>>)
    IN  F[Len(rows)]

\* line 265: filtered_df['Nota'] = filtered_df.apply(calculate_score, axis=1)
Score ==
    /\ pc = "score"
    /\ filtered_df' = DF([k \in 1..Len(filtered_df.rows) |->
                            WithNota(filtered_df.rows[k],
                                     calculate_score(filtered_df.rows[k]))])
    /\ out' = out \o ScoreErrors(filtered_df.rows)
    /\ ran' = ran \o <<Stage("score", ScoreErrors(filtered_df.rows) = <<>>)>>
    /\ pc' = "rank"
    /\ UNCHANGED <<site, df, final_df, top_by_segment, n, file, exit_status>>

\* lines 268-273: final_df = filtered_df[[...]].sort_values(by=['Nota',
\* 'Dividend Yield'], ascending=[False, False])
Rank ==
    /\ pc = "rank"
    /\ final_df' = sort_values(filtered_df.rows, "NotaDY")
    /\ ran' = ran \o <<Stage("rank", TRUE)>>
    /\ pc' = "top"
    /\ UNCHANGED <<site, df, filtered_df, top_by_segment, n, out, file, exit_status>>

\* line 276: top_by_segment = get_top_by_segment(final_df, 5)
Top ==
    /\ pc = "top"
    /\ top_by_segment' = get_top_by_segment(final_df, n)
    /\ ran' = ran \o <<Stage("top", TRUE)>>
    /\ pc' = "open"
    /\ UNCHANGED <<site, df, filtered_df, final_df, n, out, file, exit_status>>

\* a failed write that goes unreported
WriteFailedSilent(o) == o

\* what main prints when the try block of lines 278-300 raises
WriteFailed(o) == o \o <<"ErroSalvar">>

\* what main prints when the try block completes
WriteDone(o) == o \o <<"Concluido">>

\* line 280, 302-303: with pd.ExcelWriter(output_file, engine='openpyxl');
\* opening the file may raise
OpenWriter ==
    /\ pc = "open"
    /\ \E ok \in BOOLEAN :
         /\ ran' = ran \o <<Stage("write", ok)>>
         /\ IF ok
            THEN /\ out' = out
                 /\ pc' = "sheets"
                 /\ exit_status' = exit_status
            ELSE /\ out' = WriteFailed(out)
                 /\ pc' = "done"
                 /\ exit_status' = ExitNormal
    /\ UNCHANGED <<site, df, filtered_df, final_df, top_by_segment, n, file>>

\* style_excel_output: its except clause prints and returns
StyleOut(ok) == IF ok THEN <<>> ELSE <<"ErroFormatar">>

\* lines 282-290: the two sheets and their formatting; style_excel_output may
\* raise inside, once for 'Top por Segmento' (when not empty), once for 'Todos
\* Fundos'
WriteSheets ==
    /\ pc = "sheets"
    /\ \E okTop \in BOOLEAN, okAll \in BOOLEAN :
         /\ top_by_segment = <<>> => okTop
         /\ out' = out \o StyleOut(okTop) \o StyleOut(okAll)
         /\ ran' = ran \o (IF top_by_segment = <<>> THEN <<>>
                           ELSE <<Stage("format", okTop)>>)
                       \o <<Stage("format", okAll)>>
    /\ pc' = "save"
    /\ UNCHANGED <<site, df, filtered_df, final_df, top_by_segment, n, file,
                   exit_status>>

\* the end of the with block saves the workbook, lines 292-303
SaveWorkbook ==
    /\ pc = "save"
    /\ \E ok \in BOOLEAN :
         /\ ran' = ran \o <<Stage("write", ok)>>
         /\ file' = IF ok THEN "saved" ELSE file
         /\ out' = IF ok THEN WriteDone(out) ELSE WriteFailed(out)
    /\ pc' = "done"
    /\ exit_status' = ExitNormal
    /\ UNCHANGED <<site, df, filtered_df, final_df, top_by_segment, n>>

\* a run of the script: the stages it reaches (from InitMain the other actions
\* are never enabled, and Next reaches the same states)
NextMain == Fetch \/ Clean \/ Filter

Next == Fetch \/ Clean \/ Filter \/ Score \/ Rank \/ Top \/ OpenWriter
          \/ WriteSheets \/ SaveWorkbook

\* a run of the script, for every answer of the site
Spec == InitMain /\ [][NextMain]_vars

\* every stage of main, each on the inputs its code accepts: a run of the
\* script, or the report stages on a record set
SpecStages == (InitMain \/ InitReport) /\ [][Next]_vars

-----------------------------------------------------------------------------
(* What the stages did, read off the history. *)

HasRun(name) == \E k \in 1..Len(ran) : ran[k].stage = name
HasFailed(name) == \E k \in 1..Len(ran) : ran[k].stage = name /\ ~ran[k].ok
Runs(name) == Cardinality({k \in 1..Len(ran) : ran[k].stage = name})
Printed(m) == \E k \in 1..Len(out) : out[k] = m
\* the stage that ran last (what it set is not changed afterwards)
JustRan(name) == ran # <<>> /\ ran[Len(ran)].stage = name
LastPrinted == IF out = <<>> THEN "" ELSE out[Len(out)]

\* a row inside every bound of the filter but the yield bounds
InOtherBounds(r) ==
    /\ Cmp(r.PVP, Num(<<>>, <<5>>)) = 1
    /\ Cmp(r.PVP, Num(<<1>>, <<1>>)) = -1
    /\ Cmp(r.Liquidez, Num(<<1, 0, 0, 0, 0, 0, 0>>, <<>>)) = 1
    /\ Cmp(r.ValorMercado, Num(<<1, 0, 0, 0, 0, 0, 0, 0, 0, 0>>, <<>>)) = 1

\* a row inside every bound that C1 lists
MeetsAll(r) ==
    /\ Cmp(r.DividendYield, Num(<<>>, <<7>>)) = 1
    /\ Cmp(r.DividendYield, Num(<<>>, <<2, 5>>)) = -1
    /\ InOtherBounds(r)

-----------------------------------------------------------------------------
(* The claims. *)

\* C1: on a normalised record set apply_filters returns exactly the records
\* with yield > 0.7, yield < 0.25, price-to-book > 0.5 and < 1.1, liquidity >
\* 1,000,000 and market value > 1,000,000,000, and that is no record at all
C1_FilterExactAndEmpty ==
    HasRun("filter") =>
        /\ ~filtered_df.none
        /\ filtered_df.rows = SelectSeq(df.rows, MeetsAll)
        /\ filtered_df.rows = <<>>

\* the filter has run on a table with a row below the upper yield bound and a
\* row above the lower one, both inside every other bound
C1_Witness ==
    /\ HasRun("filter")
    /\ \E k \in 1..Len(df.rows) :
         InOtherBounds(df.rows[k]) /\ Cmp(df.rows[k].DividendYield, Num(<<>>, <<2, 5>>)) = -1
    /\ \E k \in 1..Len(df.rows) :
         InOtherBounds(df.rows[k]) /\ Cmp(df.rows[k].DividendYield, Num(<<>>, <<7>>)) = 1

\* C10: no run reaches the scoring, ranking or writing stage or touches the
\* output file; every run ends at an earlier stage's error message or at the
\* filter with the message that no fund meets the criteria
C10_ReportNeverReached ==
    /\ pc \in {"fetch", "clean", "filter", "done"}
    /\ file = "untouched"
    /\ \A k \in 1..Len(ran) : ran[k].stage \in {"fetch", "parse", "clean", "filter"}
    /\ HasRun("filter") /\ ~HasFailed("filter") => Len(filtered_df.rows) = 0
    /\ pc = "done" =>
         LastPrinted \in {"NaoFoiPossivel", "ErroProcessar", "ErroFiltrar", "Nenhum"}

\* a run that ended with "no fund" on a table holding a row inside every bound
\* but one yield bound
C10_Witness ==
    /\ pc = "done"
    /\ LastPrinted = "Nenhum"
    /\ \E k \in 1..Len(df.rows) : InOtherBounds(df.rows[k])

\* C7: the filter and the scorer only run after normalisation has run exactly
\* once and succeeded, on records whose numeric cells are all numbers
C7_NormalisedOnceBeforeFilter ==
    /\ Runs("clean") <= 1
    /\ pc = "filter" \/ HasRun("filter") \/ HasRun("score") =>
         /\ Runs("clean") = 1
         /\ ~HasFailed("clean")
         /\ \A k \in 1..Len(ran) :
              ran[k].stage \in {"filter", "score"} =>
                  \E j \in 1..(k - 1) : ran[j].stage = "clean"
         /\ ~df.none
         /\ Len(df.rows) = Len(site.rows)
         /\ \A k \in 1..Len(df.rows) : \A c \in NumericCols : df.rows[k][c].t = "num"

\* the filter has run on a table that has rows
C7_Witness == HasRun("filter") /\ ~df.none /\ Len(df.rows) >= 1

\* the recipe of the specification for a percentage cell: strip the thousands
\* separator, comma to point, strip the percent sign, divide by 100
PctRecipe(s) ==
    StrReplace(StrReplace(StrReplace(s, ".", <<>>), ",", <<".">>), "%", <<>>)

ValidPct(s) == Len(s) > 0 /\ s[Len(s)] = "%" /\ IsFloat(PctRecipe(s))

PctValue(s) == Div100(ToFloat(PctRecipe(s)))

\* C8: normalisation turns every valid percentage cell, in the yield and in the
\* vacancy column, into its value ("12,34%" into 0.1234, "1.234,50%" into
\* 12.345) and does not fail on it
C8_PercentagesNormalised ==
    /\ PctValue(<<"1", "2", ",", "3", "4", "%">>) = Num(<<>>, <<1, 2, 3, 4>>)
    /\ PctValue(<<"1", ".", "2", "3", "4", ",", "5", "0", "%">>) = Num(<<1, 2>>, <<3, 4, 5>>)
    /\ (HasRun("clean")
         /\ \A k \in 1..Len(site.rows) :
              /\ ValidPct(site.rows[k].DividendYield.s)
              /\ ValidPct(site.rows[k].VacanciaMedia.s))
       => /\ ~df.none
          /\ \A k \in 1..Len(df.rows) :
               /\ df.rows[k].DividendYield = PctValue(site.rows[k].DividendYield.s)
               /\ df.rows[k].VacanciaMedia = PctValue(site.rows[k].VacanciaMedia.s)

\* normalisation has run on a table whose percentage cells are all valid, one
\* of them a yield with a thousands separator, and has succeeded
C8_Witness ==
    /\ HasRun("clean")
    /\ ~df.none
    /\ \E k \in 1..Len(df.rows) : df.rows[k].DividendYield = Num(<<1, 2>>, <<3, 4, 5>>)
    /\ \E k \in 1..Len(df.rows) : df.rows[k].DividendYield = Num(<<>>, <<1, 2, 3, 4>>)

\* the rows of a sequence that belong to category g
OfSeg(rows, g) == {k \in 1..Len(rows) : rows[k].Segmento = g}

\* a is ranked strictly above b: a higher score, or the same score and a
\* higher yield
RankedAbove(a, b) ==
    \/ a.Nota > b.Nota
    \/ a.Nota = b.Nota /\ Cmp(a.DividendYield, b.DividendYield) = 1

\* a scored row with one metric replaced
WithMetric(r, c, v) == [r EXCEPT ![c] = v]

\* v is at least as good as w in column c
AsGood(c, v, w) ==
    IF c \in {"PVP", "VacanciaMedia"} THEN Cmp(v, w) <= 0 ELSE Cmp(v, w) >= 0

Levels(c) ==
    CASE c = "DividendYield" -> LvDividendYield
      [] c = "PVP"           -> LvPVP
      [] c = "Liquidez"      -> LvLiquidez
      [] c = "ValorMercado"  -> LvValorMercado
      [] c = "VacanciaMedia" -> LvVacanciaMedia

\* C2: every score is an integer in 0..10, the sum of five contributions of 0,
\* 1 or 2, and making one metric better (yield, liquidity, market value
\* higher; price-to-book, vacancy lower) with the others fixed never lowers it
C2_ScoreBoundedMonotonic ==
    JustRan("score") =>
        \A k \in 1..Len(filtered_df.rows) :
            LET r == filtered_df.rows[k]
            IN  /\ r.Nota \in 0..10
                /\ \E p \in [1..5 -> 0..2] :
                     r.Nota = p[1] + p[2] + p[3] + p[4] + p[5]
                /\ \A c \in NumericCols :
                     r[c].t = "num" =>
                       \A v \in Levels(c) :
                         AsGood(c, v, r[c]) =>
                           calculate_score(WithMetric(r, c, v)) >= r.Nota

\* a scored record that a better price-to-book ratio scores strictly higher
C2_Witness ==
    /\ HasRun("score")
    /\ \E k \in 1..Len(filtered_df.rows) :
         LET r == filtered_df.rows[k]
         IN  /\ r.Nota \in 1..9
             /\ r.PVP = Num(<<>>, <<8, 5>>)
             /\ calculate_score(WithMetric(r, "PVP", Num(<<>>, <<8>>))) > r.Nota

StoppingStages == {"fetch", "parse", "clean", "filter", "write"}

C5_FullReportOrder ==
    JustRan("rank") =>
        /\ Len(final_df) = Len(filtered_df.rows)
        /\ {final_df[k] : k \in 1..Len(final_df)}
             = {filtered_df.rows[k] : k \in 1..Len(filtered_df.rows)}
        /\ \A k \in 1..(Len(final_df) - 1) :
             \/ final_df[k].Nota > final_df[k + 1].Nota
             \/ /\ final_df[k].Nota = final_df[k + 1].Nota
                /\ Cmp(final_df[k].DividendYield, final_df[k + 1].DividendYield) >= 0

\* a report where two records of equal score and different yield were put in
\* the other order than they came in
C5_Witness ==
    /\ HasRun("rank")
    /\ \E k \in 1..(Len(final_df) - 1) :
         /\ final_df[k].Nota = final_df[k + 1].Nota
         /\ Cmp(final_df[k].DividendYield, final_df[k + 1].DividendYield) = 1
         /\ final_df[k].Papel > final_df[k + 1].Papel

\* C6: get_top_by_segment returns at most n records per category, each a
\* record of its input, unchanged and returned once; nothing for no input
C6_TopAtMostNSubset ==
    /\ \A m \in 0..MaxN : get_top_by_segment(<<>>, m) = <<>>
    /\ JustRan("top") =>
         /\ \A g \in Segmentos : Cardinality(OfSeg(top_by_segment, g)) <= n
         /\ \A k \in 1..Len(top_by_segment) :
              \E j \in 1..Len(final_df) : top_by_segment[k] = final_df[j]
         /\ \A j, k \in 1..Len(top_by_segment) :
              top_by_segment[j].Papel = top_by_segment[k].Papel => j = k

\* a category with more than n records, of which n > 0 were returned
C6_Witness ==
    /\ HasRun("top")
    /\ n > 0
    /\ \E g \in Segmentos :
         /\ Cardinality(OfSeg(final_df, g)) > n
         /\ Cardinality(OfSeg(top_by_segment, g)) = n

\* C9: of each category the first min(n, size) records by (score descending,
\* yield descending) are returned, so that no record left out is ranked above
\* a returned one of its category; the rows come by category ascending and,
\* inside a category, by score descending
C9_TopAreTheBest ==
    JustRan("top") =>
        /\ \A g \in Segmentos :
             Cardinality(OfSeg(top_by_segment, g))
               = Min(n, Cardinality(OfSeg(final_df, g)))
        /\ \A j \in 1..Len(final_df) :
             (\A k \in 1..Len(top_by_segment) : top_by_segment[k] # final_df[j]) =>
                 \A k \in 1..Len(top_by_segment) :
                     top_by_segment[k].Segmento = final_df[j].Segmento =>
                         ~RankedAbove(final_df[j], top_by_segment[k])
        /\ \A k \in 1..(Len(top_by_segment) - 1) :
             \/ top_by_segment[k].Segmento < top_by_segment[k + 1].Segmento
             \/ /\ top_by_segment[k].Segmento = top_by_segment[k + 1].Segmento
                /\ top_by_segment[k].Nota >= top_by_segment[k + 1].Nota

\* a record left out that is ranked strictly below a returned record of its
\* category, and returned rows of two categories
C9_Witness ==
    /\ HasRun("top")
    /\ \E j \in 1..Len(final_df) :
         /\ \A k \in 1..Len(top_by_segment) : top_by_segment[k] # final_df[j]
         /\ \E k \in 1..Len(top_by_segment) :
              /\ top_by_segment[k].Segmento = final_df[j].Segmento
              /\ RankedAbove(top_by_segment[k], final_df[j])
    /\ \E k \in 1..(Len(top_by_segment) - 1) :
         top_by_segment[k].Segmento < top_by_segment[k + 1].Segmento

====
